---- MODULE Spec2Model ----
(***************************************************************************)
(* State-machine model of examples/pipelines/providers/                    *)
(* anthropic_manifold_pipeline.py : class Pipeline.                        *)
(*                                                                         *)
(* Python values are modelled as follows.                                  *)
(*  - dict            : TLA+ record / function; "key in d" is              *)
(*                      key \in DOMAIN d.                                  *)
(*  - list            : sequence.                                          *)
(*  - str | list      : tagged record [kind |-> "str" | "list", ...]       *)
(*                      (isinstance(content, list) reads the tag).         *)
(*  - f"Error: {e}"   : the sequence <<"Error: ", str(e)>> of the literal  *)
(*                      prefix and the formatted exception message.        *)
(*  - base64 payload  : its length only (the code only takes len()).       *)
(*  - image sizes     : len * 3 / 4 is kept exactly, in quarter bytes.     *)
(*  - exceptions      : records [type, msg]; NoExc when none is raised.    *)
(***************************************************************************)
EXTENDS Integers, Sequences, FiniteSets, TLC

VARIABLES valves, headers, upd, ncalls, configured,
          st, input, payload, result, sent, response, received, emitted,
          conn, escaped, abandoned

vars == <<valves, headers, upd, ncalls, configured,
          st, input, payload, result, sent, response, received, emitted,
          conn, escaped, abandoned>>

cfgvars == <<valves, headers, upd, ncalls, configured>>

reqvars == <<st, input, payload, result, sent, response, received, emitted,
             conn, escaped, abandoned>>

(***************************************************************************)
(* Bounds of the model.                                                    *)
(***************************************************************************)
MaxMsgs == 2
MaxParts == 2
MaxImages == 6
MaxEvents == 3
MaxBlocks == 2
MaxUpdates == 2

(***************************************************************************)
(* Program constants.                                                      *)
(***************************************************************************)
MaxImageCount == 5
MaxTotalImageSize == 100 * 1024 * 1024
CacheMinTokens == 1024
CachingModel == "claude-3-5-sonnet-20241022"
DefaultMaxTokens == 4096
HttpOk == 200

SeqsUpTo(S, n) == UNION {[1..k -> S] : k \in 0..n}

EmptyDict == [k \in {} |-> TRUE]

NoExc == [type |-> "none"]
ValueError(m) == [type |-> "ValueError", msg |-> <<m>>]
KeyError(k) == [type |-> "KeyError", msg |-> <<k>>]
TypeError(m) == [type |-> "TypeError", msg |-> <<m>>]
JSONDecodeError == [type |-> "JSONDecodeError", msg |-> <<"Expecting value">>]
ProviderException(status) == [type |-> "Exception", msg |-> <<"Error: ", ToString(status), " - ", "body">>]

(***************************************************************************)
(* Inputs: texts with the token count tiktoken gives them, image URLs,     *)
(* content parts, messages.                                                *)
(***************************************************************************)
TextPool == {"", "t1023", "t1024"}

TokenCount == [s \in TextPool |->
                 CASE s = "" -> 0
                   [] s = "t1023" -> CacheMinTokens - 1
                   [] s = "t1024" -> CacheMinTokens]

get_tokens(text) == TokenCount[text]

Roles == {"system", "user", "assistant"}

ModelIds == {CachingModel, "claude-sonnet-4-20250514"}

\* largest base64 length whose estimated size stays below the limit when
\* one more base64 character is still allowed
BigLen == (4 * MaxTotalImageSize) \div 3 - 1

DataUri(n) == [prefix |-> "data:image", media |-> "image/png", comma |-> TRUE, b64len |-> n]
BadDataUri == [prefix |-> "data:image", media |-> "image/png", comma |-> FALSE, b64len |-> 0]
RemoteUrl == [prefix |-> "https://", media |-> "", comma |-> FALSE, b64len |-> 0]

WellFormedUrls == {DataUri(1), DataUri(BigLen), RemoteUrl}
UrlPool == WellFormedUrls \cup {BadDataUri}

TextItem(s) == [type |-> "text", text |-> s]
ImageItem(u) == [type |-> "image_url", image_url |-> [url |-> u]]

StrContent(s) == [kind |-> "str", str |-> s]
ListContent(items) == [kind |-> "list", items |-> items]

Message(r, c) == [role |-> r, content |-> c]

TextContents ==
  {StrContent(s) : s \in TextPool}
    \cup {ListContent(p) :
            p \in SeqsUpTo({TextItem(s) : s \in TextPool \ {""}}, MaxParts)}

TextMessageLists ==
  SeqsUpTo({Message(r, c) : r \in Roles, c \in TextContents}, MaxMsgs)

\* a sequence of images, split over two user messages at position k
SplitImages(s, k) ==
  IF k = 0
    THEN <<Message("user", ListContent(s))>>
    ELSE <<Message("user", ListContent(SubSeq(s, 1, k))),
           Message("user", ListContent(SubSeq(s, k + 1, Len(s))))>>

ImageMessageLists ==
  UNION {{SplitImages(s, k) : k \in {0, 1, Len(s) \div 2}} :
           s \in SeqsUpTo({ImageItem(u) : u \in WellFormedUrls}, MaxImages) \ {<<>>}}

\* a text part between images, inside one message
MixedMessageLists ==
  {<<Message("user", ListContent(<<ImageItem(u), TextItem(s), ImageItem(v)>>))>> :
     u \in UrlPool, v \in UrlPool, s \in TextPool}

EmptyBody == EmptyDict

Input(m, msgs, b) == [model_id |-> m, messages |-> msgs, body |-> b]

NormInputs ==
  {Input(m, msgs, EmptyBody) : m \in ModelIds, msgs \in TextMessageLists}
    \cup {Input(m, <<Message("user", StrContent(s))>>, [stream |-> TRUE]) :
            m \in ModelIds, s \in TextPool}
    \cup {Input("claude-sonnet-4-20250514", msgs, EmptyBody) :
            msgs \in ImageMessageLists \cup MixedMessageLists}

(***************************************************************************)
(* utils.pipelines.main.pop_system_message: a leading system message is    *)
(* taken off the list and its content captured as a plain string.          *)
(***************************************************************************)
RECURSIVE JoinText(_)
JoinText(items) ==
  IF items = <<>> THEN ""
  ELSE (IF Head(items).type = "text" THEN Head(items).text ELSE "")
         \o JoinText(Tail(items))

ContentText(c) == IF c.kind = "str" THEN c.str ELSE JoinText(c.items)

NoSystemMessage == [present |-> FALSE, text |-> ""]

pop_system_message(messages) ==
  IF messages # <<>> /\ messages[1].role = "system"
    THEN [system_message |-> [present |-> TRUE, text |-> ContentText(messages[1].content)],
          messages |-> Tail(messages)]
    ELSE [system_message |-> NoSystemMessage, messages |-> messages]

\* truth value of system_message in "if system_message"
Truthy(system_message) == system_message.present /\ system_message.text # ""

(***************************************************************************)
(* Pipeline.process_image                                                  *)
(***************************************************************************)
process_image(image_data) ==
  IF image_data.url.prefix = "data:image"
    THEN IF image_data.url.comma
           THEN [exc |-> NoExc,
                 value |-> [type |-> "image",
                            source |-> [type |-> "base64",
                                        media_type |-> image_data.url.media,
                                        data |-> [len |-> image_data.url.b64len]]]]
           ELSE [exc |-> ValueError("not enough values to unpack (expected 2, got 1)")]
    ELSE [exc |-> NoExc,
          value |-> [type |-> "image",
                     source |-> [type |-> "url", url |-> image_data.url]]]

(***************************************************************************)
(* Pipeline.pipe, normalization loop.  acc carries the locals              *)
(* processed_content, image_count, total_image_size (in quarter bytes),    *)
(* cached, and the exception raised so far.                                *)
(***************************************************************************)
\* variant: the threshold itself is not eligible
CacheEligibleAbove(model_id, text) ==
  model_id = CachingModel /\ get_tokens(text) > CacheMinTokens

CacheEligible(model_id, text) ==
  model_id = CachingModel /\ get_tokens(text) >= CacheMinTokens

TextContent(model_id, text) ==
  IF CacheEligible(model_id, text)
    THEN [type |-> "text", text |-> text, cache_control |-> [type |-> "ephemeral"]]
    ELSE [type |-> "text", text |-> text]

\* variant: the check lets a sixth image through
CountExceededLate(image_count) == image_count > MaxImageCount

CountExceeded(image_count) == image_count >= MaxImageCount

\* total_image_size > 100 * 1024 * 1024, both sides in quarter bytes
SizeExceeded(total4) == total4 > 4 * MaxTotalImageSize

\* len(data) * 3 / 4 in quarter bytes, 0 for a remote URL
ImageSize4(processed_image) ==
  IF processed_image.source.type = "base64"
    THEN processed_image.source.data.len * 3
    ELSE 0

CountMessage == "Maximum of 5 images per API call exceeded"
SizeMessage == "Total size of images exceeds 100 MB limit"

ProcessImageItem(acc, item) ==
  IF CountExceeded(acc.image_count)
    THEN [acc EXCEPT !.exc = ValueError(CountMessage)]
    ELSE LET p == process_image(item.image_url) IN
         IF p.exc # NoExc
           THEN [acc EXCEPT !.exc = p.exc]
           ELSE LET total == acc.total4 + ImageSize4(p.value) IN
                IF SizeExceeded(total)
                  THEN [acc EXCEPT !.content = Append(@, p.value),
                                   !.total4 = total,
                                   !.exc = ValueError(SizeMessage)]
                  ELSE [acc EXCEPT !.content = Append(@, p.value),
                                   !.total4 = total,
                                   !.image_count = @ + 1]

ProcessItem(acc, item, model_id) ==
  IF item.type = "text"
    THEN [acc EXCEPT !.content = Append(@, TextContent(model_id, item.text)),
                     !.cached = @ \/ CacheEligible(model_id, item.text)]
    ELSE IF item.type = "image_url"
           THEN ProcessImageItem(acc, item)
           ELSE acc

RECURSIVE ProcessItems(_, _, _)
ProcessItems(acc, items, model_id) ==
  IF items = <<>> \/ acc.exc # NoExc
    THEN acc
    ELSE ProcessItems(ProcessItem(acc, Head(items), model_id), Tail(items), model_id)

\* variant: the processed message is put in front of the list
ProcessMessagePrepend(acc, message, model_id) ==
  LET a == IF message.content.kind = "list"
             THEN ProcessItems([acc EXCEPT !.content = <<>>],
                               message.content.items, model_id)
             ELSE [acc EXCEPT
                     !.content = <<TextContent(model_id, message.content.str)>>,
                     !.cached = @ \/ CacheEligible(model_id, message.content.str)]
  IN IF a.exc # NoExc
       THEN a
       ELSE [a EXCEPT !.messages =
               <<[role |-> message.role, content |-> a.content]>> \o @]

ProcessMessage(acc, message, model_id) ==
  LET a == IF message.content.kind = "list"
             THEN ProcessItems([acc EXCEPT !.content = <<>>],
                               message.content.items, model_id)
             ELSE [acc EXCEPT
                     !.content = <<TextContent(model_id, message.content.str)>>,
                     !.cached = @ \/ CacheEligible(model_id, message.content.str)]
  IN IF a.exc # NoExc
       THEN a
       ELSE [a EXCEPT !.messages =
               Append(@, [role |-> message.role, content |-> a.content])]

RECURSIVE ProcessMessages(_, _, _)
ProcessMessages(acc, messages, model_id) ==
  IF messages = <<>> \/ acc.exc # NoExc
    THEN acc
    ELSE ProcessMessages(ProcessMessage(acc, Head(messages), model_id),
                         Tail(messages), model_id)

InitialAcc ==
  [messages |-> <<>>, content |-> <<>>, image_count |-> 0, total4 |-> 0,
   cached |-> FALSE, exc |-> NoExc]

BodyPop(body) ==
  [k \in DOMAIN body \ {"user", "chat_id", "title"} |-> body[k]]

BodyGet(body, key, default) == IF key \in DOMAIN body THEN body[key] ELSE default

\* variant: the system key is set whenever a system message was popped
PayloadSystemAlways(model_id, processed_messages, body, system_message) ==
  [model |-> model_id,
   messages |-> processed_messages,
   max_tokens |-> BodyGet(body, "max_tokens", DefaultMaxTokens),
   temperature |-> BodyGet(body, "temperature", "0.8"),
   top_k |-> BodyGet(body, "top_k", 40),
   top_p |-> BodyGet(body, "top_p", "0.9"),
   stop_sequences |-> BodyGet(body, "stop", <<>>),
   stream |-> BodyGet(body, "stream", FALSE)]
    @@ (IF system_message.present
          THEN [system |-> system_message.text]
          ELSE EmptyDict)

Payload(model_id, processed_messages, body, system_message) ==
  [model |-> model_id,
   messages |-> processed_messages,
   max_tokens |-> BodyGet(body, "max_tokens", DefaultMaxTokens),
   temperature |-> BodyGet(body, "temperature", "0.8"),
   top_k |-> BodyGet(body, "top_k", 40),
   top_p |-> BodyGet(body, "top_p", "0.9"),
   stop_sequences |-> BodyGet(body, "stop", <<>>),
   stream |-> BodyGet(body, "stream", FALSE)]
    @@ (IF Truthy(system_message)
          THEN [system |-> system_message.text]
          ELSE EmptyDict)

\* the try body of pipe up to the dispatch: the payload, or the exception
Normalize(model_id, messages, body) ==
  LET b == BodyPop(body)
      popped == pop_system_message(messages)
      acc == ProcessMessages(InitialAcc, popped.messages, model_id)
  IN IF acc.exc # NoExc
       THEN [exc |-> acc.exc]
       ELSE [exc |-> NoExc,
             payload |-> Payload(model_id, acc.messages, b, popped.system_message)]

(***************************************************************************)
(* JSON values received from the provider.  An object is                   *)
(* [t |-> "obj", v |-> record]; JSON null is [t |-> "null"].  A raw body   *)
(* is [valid, value]: json.loads raises JSONDecodeError unless valid.      *)
(***************************************************************************)
Obj(r) == [t |-> "obj", v |-> r]
JNull == [t |-> "null"]
Raw(j) == [valid |-> TRUE, value |-> j]
BadJson == [valid |-> FALSE, value |-> JNull]

json_loads(raw) ==
  IF raw.valid THEN [exc |-> NoExc, value |-> raw.value]
               ELSE [exc |-> JSONDecodeError]

\* the exception of j[key] for a string key, NoExc if the subscript succeeds
GetItemExc(j, key) ==
  IF j.t = "obj"
    THEN IF key \in DOMAIN j.v THEN NoExc ELSE KeyError(key)
    ELSE TypeError("object is not subscriptable")

EvStart(text) ==
  Raw(Obj([type |-> "content_block_start",
           content_block |-> Obj([type |-> "text", text |-> text])]))
EvDelta(text) ==
  Raw(Obj([type |-> "content_block_delta",
           delta |-> Obj([type |-> "text_delta", text |-> text])]))
EvStop == Raw(Obj([type |-> "message_stop"]))
EvPing == Raw(Obj([type |-> "ping"]))
EvDeltaNoText ==
  Raw(Obj([type |-> "content_block_delta",
           delta |-> Obj([type |-> "input_json_delta"])]))
EvNull == Raw(JNull)

EventPool ==
  {EvStart("Hello"), EvDelta(" world"), EvStop, EvPing, EvDeltaNoText,
   BadJson, EvNull}

(***************************************************************************)
(* Pipeline.stream_response, body of the for loop for one event:           *)
(* what the generator does with it.                                        *)
(*   [act |-> "yield", text]  a fragment is yielded                        *)
(*   [act |-> "skip"]         nothing is yielded, the loop goes on         *)
(*   [act |-> "break"]        the loop is left                             *)
(*   [act |-> "raise", exc]   an exception leaves the generator            *)
(***************************************************************************)
YieldField(data, field) ==
  LET e1 == GetItemExc(data, field) IN
  IF e1 # NoExc THEN e1
  ELSE GetItemExc(data.v[field], "text")

Caught(exc) == exc.type \in {"JSONDecodeError", "KeyError"}

Outcome(exc, normal) ==
  IF exc = NoExc THEN normal
  ELSE IF Caught(exc) THEN [act |-> "skip"]
  ELSE [act |-> "raise", exc |-> exc]

BlockFor(type) ==
  IF type = "content_block_start" THEN "content_block" ELSE "delta"

\* variant: message_stop is treated like any other event type
TypeActionNoBreak(type) ==
  IF type \in {"content_block_start", "content_block_delta"} THEN "yield"
  ELSE "skip"

\* the if / elif chain on data["type"]
TypeAction(type) ==
  IF type \in {"content_block_start", "content_block_delta"} THEN "yield"
  ELSE IF type = "message_stop" THEN "break"
  ELSE "skip"

HandleEvent(event) ==
  LET parsed == json_loads(event) IN
  IF parsed.exc # NoExc THEN Outcome(parsed.exc, [act |-> "skip"])
  ELSE LET data == parsed.value
           e0 == GetItemExc(data, "type")
       IN IF e0 # NoExc THEN Outcome(e0, [act |-> "skip"])
          ELSE IF TypeAction(data.v.type) = "yield"
            THEN LET f == BlockFor(data.v.type)
                     e == YieldField(data, f)
                 IN Outcome(e, IF e = NoExc
                                 THEN [act |-> "yield", text |-> data.v[f].v.text]
                                 ELSE [act |-> "skip"])
          ELSE IF TypeAction(data.v.type) = "break"
            THEN [act |-> "break"]
            ELSE [act |-> "skip"]

(***************************************************************************)
(* Pipeline.get_completion on a received response.                         *)
(***************************************************************************)
TextBlock(text) == [type |-> "text", text |-> text]
ToolUseBlock == [type |-> "tool_use", name |-> "f"]

BlockPool == {TextBlock("Hello"), TextBlock(" world"), ToolUseBlock}

ResponseBodies ==
  {Raw(Obj([id |-> "msg"]))}
    \cup {Raw(Obj([id |-> "msg", content |-> c])) : c \in SeqsUpTo(BlockPool, MaxBlocks)}
    \cup {BadJson}

StatusCodes == {HttpOk, 401}

\* the value returned, or the exception raised
get_completion(status_code, body) ==
  IF status_code = HttpOk
    THEN LET res == json_loads(body) IN
         IF res.exc # NoExc THEN [exc |-> res.exc]
         ELSE IF "content" \in DOMAIN res.value.v /\ res.value.v.content # <<>>
                THEN IF "text" \in DOMAIN res.value.v.content[1]
                       THEN [exc |-> NoExc, value |-> <<res.value.v.content[1].text>>]
                       ELSE [exc |-> KeyError("text")]
                ELSE [exc |-> NoExc, value |-> <<"">>]
    ELSE [exc |-> ProviderException(status_code)]

\* f"Error: {e}"
ErrorString(exc) == <<"Error: ">> \o exc.msg

(***************************************************************************)
(* Configuration: Valves, update_headers, on_valves_updated.               *)
(* Every header field carries, besides its value, the number of the        *)
(* update_headers call that produced it.                                   *)
(***************************************************************************)
Keys == {"your-api-key-here", "sk-ant-1"}

NewHeaders(key, call) ==
  [anthropic_version |-> [val |-> "2023-06-01", call |-> call],
   content_type |-> [val |-> "application/json", call |-> call],
   x_api_key |-> [val |-> key, call |-> call]]

NoHeaders == [none |-> TRUE]

\* variant: only the key entry of the existing dict is updated
MergeHeaders(old, built) == [old EXCEPT !.x_api_key = built.x_api_key]

\* self.headers = {...}: the attribute is rebound to the new dict
AssignHeaders(old, built) == built

None == [none |-> TRUE]
StrResult(parts) == [kind |-> "str", parts |-> parts]
GeneratorResult == [kind |-> "generator"]

Init ==
  /\ valves = "your-api-key-here"
  /\ headers = NewHeaders(valves, 0)
  /\ upd = [pc |-> "idle", built |-> NoHeaders]
  /\ ncalls = 0
  /\ configured = valves
  /\ st = "idle"
  /\ input = None
  /\ payload = None
  /\ result = None
  /\ sent = NoHeaders
  /\ response = None
  /\ received = <<>>
  /\ emitted = <<>>
  /\ conn = "none"
  /\ escaped = NoExc
  /\ abandoned = FALSE

\* the host replaces pipeline.valves
ValvesReplace(key) ==
  /\ upd.pc = "idle"
  /\ valves' = key
  /\ UNCHANGED <<headers, upd, ncalls, configured>>
  /\ UNCHANGED reqvars

\* on_valves_updated -> update_headers: the dict display is evaluated
UpdateHeadersBuild ==
  /\ upd.pc = "idle"
  /\ ncalls < MaxUpdates
  /\ ncalls' = ncalls + 1
  /\ upd' = [pc |-> "built", built |-> NewHeaders(valves, ncalls + 1)]
  /\ UNCHANGED <<valves, headers, configured>>
  /\ UNCHANGED reqvars

\* ... and stored in self.headers; on_valves_updated returns
UpdateHeadersAssign ==
  /\ upd.pc = "built"
  /\ headers' = AssignHeaders(headers, upd.built)
  /\ upd' = [pc |-> "idle", built |-> NoHeaders]
  /\ configured' = valves
  /\ UNCHANGED <<valves, ncalls>>
  /\ UNCHANGED reqvars

(***************************************************************************)
(* Pipeline.pipe: normalization and dispatch.  With stream false the       *)
(* request is posted inside the call (get_completion); with stream true    *)
(* only the generator object is created.                                   *)
(***************************************************************************)
Pipe(model_id, messages, body) ==
  /\ st = "idle"
  /\ input' = Input(model_id, messages, body)
  /\ LET n == Normalize(model_id, messages, body) IN
     IF n.exc # NoExc
       THEN /\ result' = StrResult(ErrorString(n.exc))
            /\ st' = "returned"
            /\ UNCHANGED <<payload, sent>>
       ELSE /\ payload' = n.payload
            /\ IF BodyGet(BodyPop(body), "stream", FALSE)
                 THEN /\ result' = GeneratorResult
                      /\ st' = "created"
                      /\ UNCHANGED sent
                 ELSE /\ sent' = headers
                      /\ st' = "awaiting"
                      /\ UNCHANGED result
  /\ UNCHANGED <<response, received, emitted, conn, escaped, abandoned>>
  /\ UNCHANGED cfgvars

\* the response of the blocking post arrives; pipe returns
GetCompletionReturn(status_code, body) ==
  /\ st = "awaiting"
  /\ LET r == get_completion(status_code, body) IN
     /\ result' = IF r.exc # NoExc THEN StrResult(ErrorString(r.exc))
                                   ELSE StrResult(r.value)
     /\ response' = [status_code |-> status_code, body |-> body]
  /\ st' = "returned"
  /\ UNCHANGED <<input, payload, sent, received, emitted, conn, escaped, abandoned>>
  /\ UNCHANGED cfgvars

(***************************************************************************)
(* Pipeline.stream_response, driven by the invoker's next() calls.         *)
(***************************************************************************)
\* first next(): the request is posted and the status inspected
StreamOpen(status_code) ==
  /\ st = "created"
  /\ ~abandoned
  /\ sent' = headers
  /\ response' = [status_code |-> status_code, body |-> BadJson]
  /\ conn' = "held"
  /\ IF status_code = HttpOk
       THEN /\ st' = "running"
            /\ UNCHANGED escaped
       ELSE /\ st' = "raised"
            /\ escaped' = ProviderException(status_code)
  /\ UNCHANGED <<input, payload, result, received, emitted, abandoned>>
  /\ UNCHANGED cfgvars

\* the next event of the stream is read and handled
StreamEvent(event) ==
  /\ st \in {"running", "suspended"}
  /\ ~abandoned
  /\ Len(received) < MaxEvents
  /\ received' = Append(received, event)
  /\ LET h == HandleEvent(event) IN
     CASE h.act = "yield" -> /\ emitted' = Append(emitted, h.text)
                             /\ st' = "suspended"
                             /\ UNCHANGED escaped
       [] h.act = "skip"  -> /\ st' = "running"
                             /\ UNCHANGED <<emitted, escaped>>
       [] h.act = "break" -> /\ st' = "done"
                             /\ UNCHANGED <<emitted, escaped>>
       [] h.act = "raise" -> /\ st' = "raised"
                             /\ escaped' = h.exc
                             /\ UNCHANGED emitted
  /\ UNCHANGED <<input, payload, result, sent, response, conn, abandoned>>
  /\ UNCHANGED cfgvars

\* the event stream ends without message_stop: the body is read to its end
StreamEnd ==
  /\ st \in {"running", "suspended"}
  /\ ~abandoned
  /\ st' = "done"
  /\ conn' = "released"
  /\ UNCHANGED <<input, payload, result, sent, response, received, emitted, escaped, abandoned>>
  /\ UNCHANGED cfgvars

\* the invoker stops pulling and keeps the suspended generator
StreamAbandon ==
  /\ st \in {"created", "suspended"}
  /\ ~abandoned
  /\ abandoned' = TRUE
  /\ UNCHANGED <<st, input, payload, result, sent, response, received, emitted, conn, escaped>>
  /\ UNCHANGED cfgvars

\* generator.close(): GeneratorExit is raised at the yield; no clause of
\* stream_response handles it
StreamClose ==
  /\ st \in {"created", "suspended"}
  /\ st' = "closed"
  /\ abandoned' = TRUE
  /\ UNCHANGED <<input, payload, result, sent, response, received, emitted, conn, escaped>>
  /\ UNCHANGED cfgvars

\* the runtime finalizes the response of a terminated generator
Finalize ==
  /\ st \in {"done", "raised", "closed"}
  /\ conn = "held"
  /\ conn' = "released"
  /\ UNCHANGED <<st, input, payload, result, sent, response, received, emitted, escaped, abandoned>>
  /\ UNCHANGED cfgvars

(***************************************************************************)
(* Specifications.                                                         *)
(***************************************************************************)
TooManyImages ==
  <<Message("user", ListContent([i \in 1..(MaxImageCount + 1) |-> ImageItem(RemoteUrl)]))>>

ExecMessageLists ==
  {<<Message("user", StrContent("t1023"))>>, TooManyImages}

ExecBodies == {EmptyBody, [stream |-> TRUE], [stream |-> FALSE, user |-> "u"]}

PipeNorm ==
  /\ st = "idle"
  /\ \E i \in NormInputs : Pipe(i.model_id, i.messages, i.body)

PipeExec ==
  \E msgs \in ExecMessageLists, b \in ExecBodies :
    Pipe("claude-sonnet-4-20250514", msgs, b)

NextNorm == PipeNorm

SpecNorm == Init /\ [][NextNorm]_vars

Next ==
  \/ \E key \in Keys : ValvesReplace(key)
  \/ UpdateHeadersBuild
  \/ UpdateHeadersAssign
  \/ PipeExec
  \/ \E s \in StatusCodes, b \in ResponseBodies : GetCompletionReturn(s, b)
  \/ \E s \in StatusCodes : StreamOpen(s)
  \/ \E e \in EventPool : StreamEvent(e)
  \/ StreamEnd
  \/ StreamAbandon
  \/ StreamClose
  \/ Finalize

Spec == Init /\ [][Next]_vars

\* the runtime finalizes what is unreachable, and started handlers finish
FairSpec ==
  /\ Spec
  /\ WF_vars(Finalize)
  /\ WF_vars(UpdateHeadersAssign)
  /\ WF_vars(\E s \in StatusCodes, b \in ResponseBodies : GetCompletionReturn(s, b))

(***************************************************************************)
(* Properties.                                                             *)
(***************************************************************************)
Called == input # None
NormOk == Called /\ payload # None
NormFailed == Called /\ payload = None

LeadingSystem(msgs) == msgs # <<>> /\ msgs[1].role = "system"
Remaining(msgs) == IF LeadingSystem(msgs) THEN Tail(msgs) ELSE msgs

RECURSIVE ItemUrls(_)
ItemUrls(items) ==
  IF items = <<>> THEN <<>>
  ELSE (IF Head(items).type = "image_url"
          THEN <<Head(items).image_url.url>> ELSE <<>>) \o ItemUrls(Tail(items))

RECURSIVE ImageUrls(_)
ImageUrls(msgs) ==
  IF msgs = <<>> THEN <<>>
  ELSE (IF Head(msgs).content.kind = "list"
          THEN ItemUrls(Head(msgs).content.items) ELSE <<>>) \o ImageUrls(Tail(msgs))

RECURSIVE TotalLen(_)
TotalLen(urls) ==
  IF urls = <<>> THEN 0
  ELSE (IF Head(urls).prefix = "data:image" THEN Head(urls).b64len ELSE 0)
         + TotalLen(Tail(urls))

RequestUrls == ImageUrls(Remaining(input.messages))

ImageLimitError ==
  /\ NormFailed
  /\ result \in {StrResult(<<"Error: ", CountMessage>>),
                 StrResult(<<"Error: ", SizeMessage>>)}

\* sum of len * 3 / 4 > 100 MiB, for integer lengths
OverSize(urls) == TotalLen(urls) > (4 * MaxTotalImageSize) \div 3

\* C2: for the image parts of one invocation (data URIs and remote URLs),
\* pipe returns the image-limit error, and no payload, if and only if there
\* are more than 5 images or the cumulative estimated size (base64 length
\* x 3/4, 0 for remote URLs) exceeds 100 MiB.
C2_ImageLimit ==
  (Called /\ \A i \in 1..Len(RequestUrls) : RequestUrls[i] \in WellFormedUrls)
    => (ImageLimitError <=>
          (Len(RequestUrls) > MaxImageCount \/ OverSize(RequestUrls)))

\* five images whose estimated size is the largest one not above the limit
C2_Witness ==
  /\ NormOk
  /\ Len(RequestUrls) = MaxImageCount
  /\ TotalLen(RequestUrls) = (4 * MaxTotalImageSize) \div 3
  /\ Len(payload.messages) = 2

RECURSIVE PartsText(_)
PartsText(parts) ==
  IF parts = <<>> THEN ""
  ELSE (IF Head(parts).type = "text" THEN Head(parts).text ELSE "")
         \o PartsText(Tail(parts))

InputText(c) == IF c.kind = "str" THEN c.str ELSE PartsText(c.items)

\* C5: a leading system message is not in the payload's message list (the
\* list is the rest of the input, in order), its text is the payload's
\* system field, and the payload has a system key iff a leading system
\* message was extracted and its text is not empty.
C5_SystemField ==
  NormOk =>
    LET msgs == input.messages
        rest == Remaining(msgs)
    IN /\ Len(payload.messages) = Len(rest)
       /\ \A i \in 1..Len(rest) :
            /\ payload.messages[i].role = rest[i].role
            /\ PartsText(payload.messages[i].content) = InputText(rest[i].content)
       /\ ("system" \in DOMAIN payload)
            <=> (LeadingSystem(msgs) /\ InputText(msgs[1].content) # "")
       /\ ("system" \in DOMAIN payload)
            => payload.system = InputText(msgs[1].content)

C5_Witness ==
  /\ NormOk
  /\ Len(input.messages) = 2
  /\ input.messages[1].role = "system"
  /\ "system" \in DOMAIN payload
  /\ payload.system = "t1024"
  /\ Len(payload.messages) = 1
  /\ payload.messages[1].role = "user"

\* C6: a normalized text part carries cache_control iff the model is
\* claude-3-5-sonnet-20241022 and the text has at least 1024 tokens.
C6_CacheMarker ==
  NormOk =>
    \A i \in 1..Len(payload.messages) :
      \A j \in 1..Len(payload.messages[i].content) :
        LET part == payload.messages[i].content[j] IN
        part.type = "text" =>
          (("cache_control" \in DOMAIN part)
             <=> (input.model_id = "claude-3-5-sonnet-20241022"
                    /\ TokenCount[part.text] >= 1024))

\* on the caching model, a 1024-token part marked next to a 1023-token part
\* left unmarked
C6_Witness ==
  /\ NormOk
  /\ input.model_id = CachingModel
  /\ Len(payload.messages) = 1
  /\ Len(payload.messages[1].content) = 2
  /\ payload.messages[1].content[1].text = "t1023"
  /\ "cache_control" \notin DOMAIN payload.messages[1].content[1]
  /\ payload.messages[1].content[2].text = "t1024"
  /\ "cache_control" \in DOMAIN payload.messages[1].content[2]

AllPlainStrings(msgs) == \A i \in 1..Len(msgs) : msgs[i].content.kind = "str"

\* C7 as stated: with plain-string content only, one normalized message per
\* input message, same order and role, whose content is exactly one text
\* part holding the string and nothing else.
C7_AsStated ==
  (NormOk /\ AllPlainStrings(input.messages)) =>
    /\ Len(payload.messages) = Len(input.messages)
    /\ \A i \in 1..Len(payload.messages) :
         payload.messages[i] =
           [role |-> input.messages[i].role,
            content |-> <<[type |-> "text", text |-> input.messages[i].content.str]>>]

\* C7 amended: with plain-string content only, one normalized message per
\* input message left after the leading system message is extracted, same
\* order and role, whose content is exactly one text part holding the
\* string unchanged; the only other key the part can have is cache_control,
\* present iff the model is the caching model and the string has at least
\* 1024 tokens.
C7_PlainStrings ==
  (Called /\ AllPlainStrings(input.messages)) =>
    /\ NormOk
    /\ LET rest == Remaining(input.messages) IN
       /\ Len(payload.messages) = Len(rest)
       /\ \A i \in 1..Len(rest) :
            LET m == payload.messages[i] IN
            /\ m.role = rest[i].role
            /\ Len(m.content) = 1
            /\ m.content[1].type = "text"
            /\ m.content[1].text = rest[i].content.str
            /\ DOMAIN m.content[1] \subseteq {"type", "text", "cache_control"}
            /\ ("cache_control" \in DOMAIN m.content[1])
                 <=> (input.model_id = "claude-3-5-sonnet-20241022"
                        /\ TokenCount[rest[i].content.str] >= 1024)

\* plain strings on the caching model: the leading system message is taken
\* off and the 1024-token string is wrapped and marked
C7_Witness ==
  /\ NormOk
  /\ AllPlainStrings(input.messages)
  /\ input.model_id = CachingModel
  /\ Len(input.messages) = 2
  /\ input.messages[1].role = "system"
  /\ input.messages[2] = Message("user", StrContent("t1024"))
  /\ payload.messages =
       <<[role |-> "user",
          content |-> <<[type |-> "text", text |-> "t1024",
                         cache_control |-> [type |-> "ephemeral"]]>>]>>

IsErrorString(r) == r.kind = "str" /\ r.parts # <<>> /\ r.parts[1] = "Error: "

\* an error was raised during normalization or execution of this invocation
ErrorRaised ==
  \/ NormFailed
  \/ response # None /\ response.status_code # 200
  \/ st = "raised"
  \/ st = "returned" /\ response # None /\ ~response.body.valid

\* C1: whatever the stream option, an error raised during normalization or
\* execution is returned as a string beginning with "Error:", and no
\* exception reaches the invoker, from the call or while draining.
C1_NoExceptionEscapes ==
  /\ escaped = NoExc
  /\ ErrorRaised => IsErrorString(result)

(***************************************************************************)
(* The fragments an event stream stands for, read off the events.          *)
(***************************************************************************)
HasTextIn(ev, type, field) ==
  /\ ev.valid
  /\ ev.value.t = "obj"
  /\ "type" \in DOMAIN ev.value.v
  /\ ev.value.v.type = type
  /\ field \in DOMAIN ev.value.v
  /\ ev.value.v[field].t = "obj"
  /\ "text" \in DOMAIN ev.value.v[field].v

IsStop(ev) ==
  /\ ev.valid
  /\ ev.value.t = "obj"
  /\ "type" \in DOMAIN ev.value.v
  /\ ev.value.v.type = "message_stop"

Fragment(ev) ==
  IF HasTextIn(ev, "content_block_start", "content_block")
    THEN <<ev.value.v.content_block.v.text>>
  ELSE IF HasTextIn(ev, "content_block_delta", "delta")
    THEN <<ev.value.v.delta.v.text>>
  ELSE <<>>

RECURSIVE ExpectedFragments(_)
ExpectedFragments(evs) ==
  IF evs = <<>> \/ IsStop(Head(evs)) THEN <<>>
  ELSE Fragment(Head(evs)) \o ExpectedFragments(Tail(evs))

\* C3: on a stream opened with status 200 the fragments emitted are, in
\* arrival order, the initial text of each content_block_start and the delta
\* text of each content_block_delta read so far, nothing for other events;
\* the first message_stop ends the generator and no later event is read.
C3_StreamFragments ==
  /\ emitted = ExpectedFragments(received)
  /\ \A i \in 1..Len(received) :
       IsStop(received[i]) => (i = Len(received) /\ st = "done")

C3_Witness ==
  /\ received = <<EvStart("Hello"), EvDelta(" world"), EvStop>>
  /\ emitted = <<"Hello", " world">>
  /\ st = "done"

\* a body that does not parse, or a parsed body without the expected fields
Malformed(ev) ==
  \/ ~ev.valid
  \/ ev.value.t # "obj"
  \/ "type" \notin DOMAIN ev.value.v
  \/ /\ ev.value.v.type = "content_block_start"
     /\ ~HasTextIn(ev, "content_block_start", "content_block")
  \/ /\ ev.value.v.type = "content_block_delta"
     /\ ~HasTextIn(ev, "content_block_delta", "delta")

\* C4: a malformed event before message_stop never aborts the stream and
\* never emits a fragment; it is skipped and later events are still read.
C4_MalformedSkipped ==
  (received # <<>> /\ Malformed(received[Len(received)]) /\ ~abandoned)
    => (st = "running" /\ emitted = ExpectedFragments(received))

RECURSIVE FirstText(_)
FirstText(blocks) ==
  IF blocks = <<>> THEN <<>>
  ELSE IF Head(blocks).type = "text" THEN <<Head(blocks).text>>
  ELSE FirstText(Tail(blocks))

\* C8: without streaming and with status 200, the result is the first text
\* block of the response's content when it holds one, and "" when the
\* response has no content key or an empty content list.
C8_FirstTextBlock ==
  (st = "returned" /\ response # None /\ response.status_code = 200
     /\ response.body.valid /\ response.body.value.t = "obj") =>
    LET res == response.body.value.v IN
    IF "content" \notin DOMAIN res \/ res.content = <<>>
      THEN result = StrResult(<<"">>)
      ELSE FirstText(res.content) # <<>>
             => result = StrResult(FirstText(res.content))

SingleCall(h) ==
  /\ h.anthropic_version.call = h.content_type.call
  /\ h.content_type.call = h.x_api_key.call

\* C9: the headers are replaced wholesale: the stored header set and the
\* header set of every request come from one update_headers call, and a
\* request is sent with the API key current when on_valves_updated last
\* completed.
C9_HeadersAtomic ==
  /\ [](SingleCall(headers) /\ (sent # NoHeaders => SingleCall(sent)))
  /\ [][sent' # sent => sent'.x_api_key.val = configured]_vars

\* a request opened with the headers of the first update while the second
\* update has built its dict and not yet stored it
C9_Witness ==
  /\ sent # NoHeaders
  /\ sent.x_api_key = [val |-> "sk-ant-1", call |-> 1]
  /\ st = "running"
  /\ received = <<>>
  /\ upd.pc = "built"
  /\ upd.built.x_api_key = [val |-> "your-api-key-here", call |-> 2]

\* C10: once the invoker has closed or abandoned the sequence while the
\* connection is held, the connection is eventually released.
C10_ConnectionReleased ==
  (abandoned /\ conn = "held") ~> (conn = "released")

====
